---- MODULE Spec2Model ----
(***************************************************************************)
(* Crawl execution engine of the crawler repository: the crawl-jobs and    *)
(* page-jobs BullMQ workers (queue/workers.ts), the job manager with its   *)
(* completion detector, the cancel / pause / resume routes, and the        *)
(* PostgreSQL repositories (crawl_jobs, crawled_pages, url_queue).         *)
(*                                                                         *)
(* One crawl job is modelled.  Every `await` of a handler is a step of its *)
(* own, so that handlers interleave exactly where the event loop and the   *)
(* database let them interleave.  A SQL statement is one atomic step and  *)
(* acts on the rows its WHERE clause selects.                              *)
(***************************************************************************)
EXTENDS Integers, FiniteSets, Sequences, TLC

\* ------------------------------------------------------------------ bounds
\* Number of concurrent page-job handlers (Worker concurrency).
NWorkers == 2
\* Number of faults in one run: a fetch that fails, or a store or queue-store
\* call of processCrawlJob that rejects.
MaxFaults == 1
\* Number of control requests (cancel / pause / resume) accepted in one run.
MaxRequests == 2

\* ------------------------------------------------------- program constants
\* defaultJobOptions.attempts of both queues.
Attempts == 3
\* Page ids are UUIDs; they are numbered from UuidBase so that no id equals
\* a URL of the origin.
UuidBase == 100

\* ------------------------------------------------- the deterministic origin
\* Normalized URLs of the test origin; SeedUrl is the seed.
URLs == 0 .. 4
SeedUrl == 0
\* filteredLinks of a fetched page, in document order.
Links(u) ==
  CASE u = 0 -> << 1, 2 >>
    [] u = 1 -> << 3 >>
    [] u = 2 -> << 3 >>
    [] u = 3 -> << 4 >>
    [] OTHER -> << >>
\* The URLs that the robots.txt of the origin disallows.
Disallowed == { 3 }
\* Job configuration accepted by POST /api/crawl.
MaxDepth == 2
MaxPages == 3

Workers == 1 .. NWorkers
Claimers == 1 .. 2

JobStatus == { "pending", "running", "paused", "completed", "failed", "cancelled" }
Terminal == { "completed", "failed", "cancelled" }

VARIABLES
  job,            \* the crawl_jobs row
  pages,          \* crawled_pages rows of the job
  urlQueue,       \* url_queue rows of the job, by normalized_url
  rowLocks,       \* url_queue rows locked FOR UPDATE by an open statement
  claimer,        \* callers of getNextFromQueue
  crawlQ,         \* the BullMQ crawl job of the job
  initPc,         \* position of processCrawlJob
  pageQ,          \* BullMQ page jobs, by queue job id
  worker,         \* the page-job handlers
  cancelledJobs,  \* cancelledJobs.has(jobId)
  monitoring,     \* activeJobs.has(jobId)
  detector,       \* the running checkJobCompletion call
  ctl,            \* the running API handler
  rateLimiter,    \* the RateLimiter of the job's domain
  clock,          \* Date.now()
  caller,         \* the callers of rateLimiter.acquire()
  urlCall,        \* the link that extractLinks and the page handler work on
  robots,         \* robots_cache row, memoryCache entry, getRobotsParser call
  exporter,       \* the export route and the completed pages it lists
  hist            \* history: what happened so far (not program state)

vars == << job, pages, urlQueue, rowLocks, claimer, crawlQ, initPc, pageQ,
           worker, cancelledJobs, monitoring, detector, ctl, rateLimiter,
           clock, caller, urlCall, robots, exporter, hist >>

\* The limiter, its clock and its callers.
limiterVars == << rateLimiter, clock, caller >>

\* ------------------------------------------------------------ jobRepository
\* maxConcurrentWorkers of the crawl request: the least value that
\* crawlRequestSchema accepts.
JobWorkers == 1

NoJob == [ exists |-> FALSE, status |-> "pending", maxPages |-> 0,
           respectRobotsTxt |-> FALSE, maxConcurrentWorkers |-> 0,
           maxDepth |-> 0,
           pagesDiscovered |-> 0, pagesCrawled |-> 0,
           pagesFailed |-> 0, pagesSkipped |-> 0 ]

\* INSERT INTO crawl_jobs: status and counters take the column defaults.
createJob(mp, rr, md) ==
  [ NoJob EXCEPT !.exists = TRUE, !.maxPages = mp, !.respectRobotsTxt = rr,
                 !.maxDepth = md,
                 !.maxConcurrentWorkers = JobWorkers ]

\* UPDATE crawl_jobs SET status = $2 WHERE id = $1: no condition on the
\* current status.
updateJobStatus(j, s) == IF j.exists THEN [ j EXCEPT !.status = s ] ELSE j

\* UPDATE crawl_jobs SET field = field + $2 WHERE id = $1.
incrementJobProgress(j, field, amount) ==
  IF j.exists THEN [ j EXCEPT ![field] = @ + amount ] ELSE j

\* ----------------------------------------------------------- pageRepository
\* SELECT EXISTS(... WHERE job_id = $1 AND normalized_url = $2).
urlExists(P, nurl) == \E p \in P : p.nurl = nurl

\* The same INSERT without the ON CONFLICT clause: a row is added even when
\* the job already has a row for the normalized URL.
createPageNoConflict(P, nurl, depth) ==
  P \cup { [ id |-> UuidBase + Cardinality(P), nurl |-> nurl,
             depth |-> depth, status |-> "pending" ] }

\* INSERT ... ON CONFLICT (job_id, normalized_url) DO NOTHING.
createPage(P, nurl, depth) ==
  IF \E p \in P : p.nurl = nurl
    THEN P
    ELSE P \cup { [ id |-> UuidBase + Cardinality(P), nurl |-> nurl,
                    depth |-> depth, status |-> "pending" ] }

\* UPDATE crawled_pages SET status = $2 WHERE id = $1.
updatePageStatus(P, id, status) ==
  { IF p.id = id THEN [ p EXCEPT !.status = status ] ELSE p : p \in P }

\* SELECT ... WHERE job_id = $1 ORDER BY crawled_at DESC NULLS LAST,
\* created_at DESC LIMIT limit OFFSET offset: the rows at positions
\* offset + 1 .. offset + limit of the listing.  No row has crawled_at set,
\* and ids are given in creation order, so a newer row is listed before an
\* older one.
getPagesByJobId(P, limit, offset) ==
  { p \in P : LET before == Cardinality({ q \in P : q.id > p.id })
              IN  offset <= before /\ before < offset + limit }

\* GET /api/jobs/:jobId/pages/:pageId: 404 without the job; otherwise
\* getPagesByJobId(jobId, { limit: 1, offset: 0 }) and pages.find by id.
GetPageRoute(j, P, pageId) ==
  IF ~j.exists THEN [ status |-> 404, page |-> {} ]
  ELSE LET found == { p \in getPagesByJobId(P, 1, 0) : p.id = pageId }
       IN  IF found = {} THEN [ status |-> 404, page |-> {} ]
                         ELSE [ status |-> 200, page |-> found ]

\* ---------------------------------------------------------- queueRepository
EmptyQueue == [ u \in URLs |-> "none" ]

\* INSERT INTO url_queue ... ON CONFLICT (job_id, normalized_url) DO NOTHING;
\* status takes the column default 'pending'.
addToQueue(Q, urls) ==
  [ u \in URLs |-> IF u \in urls /\ Q[u] = "none" THEN "pending" ELSE Q[u] ]

\* The priority column of the entry of URL u: `priority INTEGER NOT NULL
\* DEFAULT 0`; the INSERT of addToQueue does not name the column and no
\* UPDATE writes it.
QueuePriority(Q, u) == 0

\* The depth column of the entry of URL u: the depth of the URL below the seed.
QueueDepth(Q, u) ==
  CASE u = SeedUrl -> 0
    [] u \in { Links(SeedUrl)[i] : i \in 1 .. Len(Links(SeedUrl)) } -> 1
    [] OTHER -> 2

\* priority: 10 - Math.min(url.depth, 9), of addPageJobs.
PagePriority(depth) == 10 - (IF depth < 9 THEN depth ELSE 9)

\* SELECT status, COUNT(*) ... GROUP BY status.
getQueueStats(Q) ==
  [ pending  |-> Cardinality({ u \in URLs : Q[u] = "pending" }),
    crawling |-> Cardinality({ u \in URLs : Q[u] = "crawling" }) ]

\* SELECT COUNT(*) ... WHERE status = 'pending'.
getPendingCount(Q) == Cardinality({ u \in URLs : Q[u] = "pending" })

\* DELETE FROM url_queue WHERE job_id = $1.
clearQueue(Q) == EmptyQueue

\* ------------------------------------------------------------------- queues
NoPageJob == [ state |-> "none", attemptsMade |-> 0, depth |-> 0, nurl |-> 0 ]
EmptyPageQ == [ k \in URLs |-> NoPageJob ]

\* opts.jobId of a page job: the first 50 characters of the base64 text of
\* the URL, which its first 37 bytes determine.  URL 4 of the origin is a
\* path below URL 3 that differs from it after those bytes; every other URL
\* differs from the rest within them.  An id is written as the least URL
\* that has it.
PageJobId(nurl) == IF nurl = 4 THEN 3 ELSE nurl

\* queue.addBulk: a job whose id is already in the queue is not added again.
addPageJobs(PQ, entries) ==
  [ k \in URLs |->
      IF PQ[k].state = "none" /\ \E e \in entries : PageJobId(e.nurl) = k
        THEN LET e == CHOOSE x \in entries : PageJobId(x.nurl) = k
             IN  [ state |-> "waiting", attemptsMade |-> 0,
                   depth |-> e.depth, nurl |-> e.nurl ]
        ELSE PQ[k] ]

\* getJobs(['waiting','delayed','active']) then job.remove(): removing an
\* active (locked) job is rejected and the rejection is only logged.
removeJobsForCrawl(PQ) ==
  [ k \in URLs |-> IF PQ[k].state = "waiting" THEN NoPageJob ELSE PQ[k] ]

\* BullMQ's handling of a handler that returned.
JobReturned(qj) == [ qj EXCEPT !.state = "completed" ]

\* BullMQ's handling of a handler that threw: retried until `attempts`.
JobThrew(qj) ==
  IF qj.attemptsMade + 1 < Attempts
    THEN [ qj EXCEPT !.state = "waiting", !.attemptsMade = @ + 1 ]
    ELSE [ qj EXCEPT !.state = "failed", !.attemptsMade = @ + 1 ]

\* -------------------------------------------------------------- RateLimiter
\* Bounds: callers of acquire(), the largest delayMs and throttle duration,
\* the acquire() calls of one run and the clock ticks of one run.
NCallers == 3
MaxDelay == 2
MaxThrottle == 2
MaxAcquires == 4
MaxTime == 5
\* Callers arrive up to LiveTime after the start when every timer of the
\* limiter is followed to its due time.
LiveTime == 2

Callers == 1 .. NCallers

\* Date.now() when the process starts: later than any delayMs after the
\* epoch, so that the first request never waits for lastRequest = 0.
StartTime == MaxDelay + 1

\* new RateLimiter(delayMs).  pc is the await at which process() stands;
\* item, now and wakeAt are its locals and the due time of its timer.
NewRateLimiter(delayMs) ==
  [ delayMs |-> delayMs, lastRequest |-> 0, queue |-> << >>,
    processing |-> FALSE, throttleUntil |-> 0,
    pc |-> "idle", item |-> [ caller |-> 0, ticket |-> 0 ], now |-> 0,
    wakeAt |-> 0 ]

\* ------------------------------------------------------------ initial state
\* ------------------------------------------ URLs of links (crawler.ts)
\* A URL string by its parts as written: the host labels keep their case,
\* the pathname is its segments ("/x//" is x and two empty segments, "/" is
\* one empty segment), the query is its keys in order.
MaxSlashes == 2

Protocols == { "http:", "https:" }
Hostnames == { << "a", "com" >>, << "A", "com" >>, << "WWW", "a", "com" >>,
               << "b", "com" >> }
Ports == { "", "80", "443" }
Pathnames == { << "" >> } \cup
             { << "x" >> \o [ i \in 1 .. k |-> "" ] : k \in 0 .. MaxSlashes }
Searches == { << >>, << "b", "utm_source", "a" >> }
Hashes == { "", "#top" }

\* A string that new URL() rejects.
InvalidUrl == [ valid |-> FALSE, protocol |-> "", hostname |-> << >>,
                port |-> "", pathname |-> << >>, search |-> << >>,
                hash |-> "" ]

Hrefs == { InvalidUrl } \cup
         [ valid : { TRUE }, protocol : Protocols, hostname : Hostnames,
           port : Ports, pathname : Pathnames, search : Searches,
           hash : Hashes ]

\* The hostnames of seed URLs: extractDomain returns new URL(url).hostname.
Domains == { << "a", "com" >>, << "www", "a", "com" >>, << "b", "com" >> }

\* String.prototype.toLowerCase() on a host, label by label.
toLowerCase(hostname) ==
  [ i \in 1 .. Len(hostname) |->
      CASE hostname[i] = "A" -> "a"
        [] hostname[i] = "WWW" -> "www"
        [] OTHER -> hostname[i] ]

\* The port is the default one of the protocol.
IsDefaultPort(protocol, port) ==
  \/ protocol = "http:" /\ port = "80"
  \/ protocol = "https:" /\ port = "443"

\* new URL(url) of a valid string: the parser lowercases the host and drops
\* the default port.
ParseUrl(url) ==
  [ url EXCEPT !.hostname = toLowerCase(@),
               !.port = IF IsDefaultPort(url.protocol, @) THEN "" ELSE @ ]

\* Code-unit order of the query keys, as [...params.entries()].sort() uses.
ParamRank(key) == CASE key = "a" -> 1 [] key = "b" -> 2 [] OTHER -> 3

trackingParams == { "utm_source", "utm_medium", "utm_campaign", "utm_term",
                    "utm_content", "fbclid", "gclid" }

\* pathname.length > 1 && pathname.endsWith('/') ? pathname.slice(0, -1).
StripSlash(pathname) ==
  IF pathname # << "" >> /\ pathname[Len(pathname)] = ""
    THEN SubSeq(pathname, 1, Len(pathname) - 1)
    ELSE pathname

\* normalizeUrl(url): the string itself when it does not parse.
normalizeUrl(url) ==
  IF ~url.valid THEN url
  ELSE LET parsed == ParseUrl(url)
           sortedParams == SortSeq(parsed.search,
                             LAMBDA a, b : ParamRank(a) < ParamRank(b))
       IN  [ valid |-> TRUE,
             protocol |-> parsed.protocol,
             hostname |-> toLowerCase(parsed.hostname),
             port |-> IF IsDefaultPort(parsed.protocol, parsed.port)
                        THEN "" ELSE parsed.port,
             pathname |-> StripSlash(parsed.pathname),
             search |-> SelectSeq(sortedParams,
                                  LAMBDA k : k \notin trackingParams),
             hash |-> "" ]

\* urlDomain.endsWith(`.${domain}`).
EndsWithDomain(urlDomain, domain) ==
  /\ Len(urlDomain) > Len(domain)
  /\ SubSeq(urlDomain, Len(urlDomain) - Len(domain) + 1, Len(urlDomain))
       = domain

\* A domain test on the host as written in the string, unparsed.
isInDomainRaw(url, domain) ==
  url.valid /\ (url.hostname = domain \/ EndsWithDomain(url.hostname, domain))

\* isInDomain(url, domain): false when the string does not parse.
isInDomain(url, domain) ==
  IF ~url.valid THEN FALSE
  ELSE LET urlDomain == toLowerCase(ParseUrl(url).hostname)
       IN  urlDomain = domain \/ EndsWithDomain(urlDomain, domain)

\* What extractLinks computes for one href.
LinkOf(url, domain) ==
  [ url |-> url, inDomain |-> isInDomain(url, domain),
    normalized |-> normalizeUrl(url) ]

NoLink == [ url |-> InvalidUrl, inDomain |-> FALSE, normalized |-> InvalidUrl ]
NoUrlCall == [ pc |-> "start", domain |-> << >>, first |-> NoLink,
               second |-> NoLink, normalizedLink |-> InvalidUrl ]

\* ------------------------------------------------ robots.txt (robots.ts)
\* The robots_cache row of the job's domain (robotsTxt is "null" or "text"),
\* the memoryCache entry of the domain, and the running getRobotsParser call.
MaxRobotsCalls == 3
\* INTERVAL '24 hours', in clock ticks.
RobotsTtl == 2

NoRobots == [ pc |-> "idle",
              row |-> [ exists |-> FALSE, robotsTxt |-> "null",
                        expiresAt |-> 0 ],
              memoryCache |-> [ exists |-> FALSE, expiresAt |-> 0 ],
              robotsTxt |-> "null", parser |-> "none" ]

\* ------------------------------------------------ export (routes/pages.ts)
\* Pages of the job by id, and the batch size of the export (500 in the
\* source).
MaxExportPages == 4
BatchSize == 2
PageIds == 1 .. MaxExportPages

\* listing: the completed pages of the job in the order of getPagesByJobId
\* (crawled_at DESC: the page completed last comes first); pending: the
\* other pages; before: the pages that were completed when the export
\* started; emitted: what the export has written.
NoExport == [ pc |-> "idle", listing |-> << >>, pending |-> PageIds,
              offset |-> 0, before |-> {}, emitted |-> << >> ]

IdleWorker == [ pc |-> "idle", url |-> 0, depth |-> 0, li |-> 1, newUrls |-> {} ]
IdleDetector == [ pc |-> "idle", finalStatus |-> "completed",
                  pending |-> 0, crawling |-> 0 ]
IdleClaimer == [ pc |-> "idle", rows |-> {}, claims |-> {} ]
NoHist == [ crawledUrls |-> {}, zeroObs |-> 0, nReq |-> 0, nFaults |-> 0,
            droppedPaused |-> {}, nAcquired |-> 0, nReleased |-> 0,
            releases |-> << >>,
            delayChanged |-> FALSE, nRestarts |-> 0,
            nRobotsCalls |-> 0, nRobotsFetches |-> 0,
            requeued |-> {}, nRequeues |-> 0 ]

Init ==
  /\ job = NoJob
  /\ pages = {}
  /\ urlQueue = EmptyQueue
  /\ rowLocks = {}
  /\ claimer = [ c \in Claimers |-> IdleClaimer ]
  /\ crawlQ = [ state |-> "none", attemptsMade |-> 0 ]
  /\ initPc = "idle"
  /\ pageQ = EmptyPageQ
  /\ worker = [ w \in Workers |-> IdleWorker ]
  /\ cancelledJobs = FALSE
  /\ monitoring = FALSE
  /\ detector = IdleDetector
  /\ ctl = [ op |-> "idle", pc |-> "idle" ]
  /\ rateLimiter = NewRateLimiter(MaxDelay)
  /\ clock = StartTime
  /\ caller = [ c \in Callers |-> "idle" ]
  /\ urlCall = NoUrlCall
  /\ robots = NoRobots
  /\ exporter = NoExport
  /\ hist = NoHist

\* ------------------------------------------------------- POST /api/crawl
\* createJob, then addCrawlJob, for a request with the given maxDepth.
CrawlRequest(maxDepth) ==
  /\ ~job.exists
  /\ \E rr \in BOOLEAN : job' = createJob(MaxPages, rr, maxDepth)
  /\ crawlQ' = [ state |-> "waiting", attemptsMade |-> 0 ]
  /\ UNCHANGED << pages, urlQueue, rowLocks, claimer, initPc, pageQ, worker,
                  cancelledJobs, monitoring, detector, ctl, hist,
                  limiterVars, urlCall, robots, exporter >>

CrawlRoute == CrawlRequest(MaxDepth)

\* ------------------------------------------------- processCrawlJob
\* The crawl-jobs worker takes the job and runs processCrawlJob.
ProcessCrawlJob_Start ==
  /\ crawlQ.state = "waiting" /\ initPc = "idle"
  /\ crawlQ' = [ crawlQ EXCEPT !.state = "active" ]
  /\ initPc' = "updateRunning"
  /\ UNCHANGED << job, pages, urlQueue, rowLocks, claimer, pageQ, worker,
                  cancelledJobs, monitoring, detector, ctl, hist,
                  limiterVars, urlCall, robots, exporter >>

\* await updateJobStatus(jobId, 'running', { startedAt }).
ProcessCrawlJob_UpdateRunning ==
  /\ initPc = "updateRunning"
  /\ job' = updateJobStatus(job, "running")
  /\ initPc' = "checkRobots"
  /\ UNCHANGED << pages, urlQueue, rowLocks, claimer, crawlQ, pageQ, worker,
                  cancelledJobs, monitoring, detector, ctl, hist,
                  limiterVars, urlCall, robots, exporter >>

\* if (respectRobotsTxt) await checkRobotsTxt(domain): returns, or rejects
\* when the store fails.
ProcessCrawlJob_CheckRobots ==
  /\ initPc = "checkRobots"
  /\ \/ /\ initPc' = "createPage"
        /\ hist' = hist
     \/ /\ job.respectRobotsTxt
        /\ hist.nFaults < MaxFaults
        /\ initPc' = "catch"
        /\ hist' = [ hist EXCEPT !.nFaults = @ + 1 ]
  /\ UNCHANGED << job, pages, urlQueue, rowLocks, claimer, crawlQ, pageQ,
                  worker, cancelledJobs, monitoring, detector, ctl,
                  limiterVars, urlCall, robots, exporter >>

\* await createPage({ jobId, url: seedUrl, normalizedUrl, depth: 0 }).
ProcessCrawlJob_CreatePage ==
  /\ initPc = "createPage"
  /\ pages' = createPage(pages, SeedUrl, 0)
  /\ initPc' = "addToQueue"
  /\ UNCHANGED << job, urlQueue, rowLocks, claimer, crawlQ, pageQ, worker,
                  cancelledJobs, monitoring, detector, ctl, hist,
                  limiterVars, urlCall, robots, exporter >>

\* await addToQueue(jobId, [seed]).
ProcessCrawlJob_AddToQueue ==
  /\ initPc = "addToQueue"
  /\ urlQueue' = addToQueue(urlQueue, { SeedUrl })
  /\ initPc' = "incDiscovered"
  /\ UNCHANGED << job, pages, rowLocks, claimer, crawlQ, pageQ, worker,
                  cancelledJobs, monitoring, detector, ctl, hist,
                  limiterVars, urlCall, robots, exporter >>

\* await incrementJobProgress(jobId, 'pages_discovered', 1).
ProcessCrawlJob_IncDiscovered ==
  /\ initPc = "incDiscovered"
  /\ job' = incrementJobProgress(job, "pagesDiscovered", 1)
  /\ initPc' = "addPageJobs"
  /\ UNCHANGED << pages, urlQueue, rowLocks, claimer, crawlQ, pageQ, worker,
                  cancelledJobs, monitoring, detector, ctl, hist,
                  limiterVars, urlCall, robots, exporter >>

\* await addPageJobs(jobId, [seed]): returns and the handler completes, or
\* rejects when the queue store fails.
ProcessCrawlJob_AddPageJobs ==
  /\ initPc = "addPageJobs"
  /\ \/ /\ pageQ' = addPageJobs(pageQ, { [ nurl |-> SeedUrl, depth |-> 0 ] })
        /\ crawlQ' = JobReturned(crawlQ)
        /\ initPc' = "idle"
        /\ hist' = hist
     \/ /\ hist.nFaults < MaxFaults
        /\ initPc' = "catch"
        /\ hist' = [ hist EXCEPT !.nFaults = @ + 1 ]
        /\ UNCHANGED << pageQ, crawlQ >>
  /\ UNCHANGED << job, pages, urlQueue, rowLocks, claimer, worker,
                  cancelledJobs, monitoring, detector, ctl,
                  limiterVars, urlCall, robots, exporter >>

\* catch: await updateJobStatus(jobId, 'failed', ...); throw error.
ProcessCrawlJob_Catch ==
  /\ initPc = "catch"
  /\ job' = updateJobStatus(job, "failed")
  /\ crawlQ' = JobThrew(crawlQ)
  /\ initPc' = "idle"
  /\ UNCHANGED << pages, urlQueue, rowLocks, claimer, pageQ, worker,
                  cancelledJobs, monitoring, detector, ctl, hist,
                  limiterVars, urlCall, robots, exporter >>

processCrawlJob ==
  \/ ProcessCrawlJob_Start
  \/ ProcessCrawlJob_UpdateRunning
  \/ ProcessCrawlJob_CheckRobots
  \/ ProcessCrawlJob_CreatePage
  \/ ProcessCrawlJob_AddToQueue
  \/ ProcessCrawlJob_IncDiscovered
  \/ ProcessCrawlJob_AddPageJobs
  \/ ProcessCrawlJob_Catch

\* -------------------------------------------------------- processPageJob
\* The handler of worker w returns: BullMQ completes its page job.
Return(w) ==
  /\ pageQ' = [ pageQ EXCEPT ![PageJobId(worker[w].url)] = JobReturned(@) ]
  /\ worker' = [ worker EXCEPT ![w] = IdleWorker ]

\* The handler of worker w throws: BullMQ retries or fails its page job.
Throw(w) ==
  /\ pageQ' = [ pageQ EXCEPT ![PageJobId(worker[w].url)] = JobThrew(@) ]
  /\ worker' = [ worker EXCEPT ![w] = IdleWorker ]

\* The page-jobs worker gives a waiting job to its first free handler;
\* if (isJobCancelled(jobId)) return.
ProcessPageJob_Start(w, k) ==
  /\ worker[w].pc = "idle"
  /\ \A v \in Workers : v < w => worker[v].pc # "idle"
  /\ pageQ[k].state = "waiting"
  /\ IF cancelledJobs
       THEN /\ pageQ' = [ pageQ EXCEPT ![k] = JobReturned(@) ]
            /\ worker' = worker
       ELSE /\ pageQ' = [ pageQ EXCEPT ![k].state = "active" ]
            /\ worker' = [ worker EXCEPT ![w] =
                 [ IdleWorker EXCEPT !.pc = "getJob", !.url = pageQ[k].nurl,
                                     !.depth = pageQ[k].depth ] ]
  /\ UNCHANGED << job, pages, urlQueue, rowLocks, claimer, crawlQ, initPc,
                  cancelledJobs, monitoring, detector, ctl, hist,
                  limiterVars, urlCall, robots, exporter >>

\* const crawlJob = await getJobById(jobId); the status check and the
\* max-pages check on the row just read.
ProcessPageJob_GetJob(w) ==
  /\ worker[w].pc = "getJob"
  /\ IF ~job.exists \/ job.status # "running"
       THEN Return(w)
       ELSE /\ worker' = [ worker EXCEPT ![w].pc =
                 IF job.pagesCrawled >= job.maxPages THEN "skip" ELSE "acquire" ]
            /\ pageQ' = pageQ
  /\ hist' = IF job.exists /\ job.status = "paused"
              THEN [ hist EXCEPT !.droppedPaused = @ \cup { worker[w].url } ]
              ELSE hist
  /\ UNCHANGED << job, pages, urlQueue, rowLocks, claimer, crawlQ, initPc,
                  cancelledJobs, monitoring, detector, ctl,
                  limiterVars, urlCall, robots, exporter >>

\* await updatePageStatus(normalizedUrl, 'skipped'); return.
ProcessPageJob_Skip(w) ==
  /\ worker[w].pc = "skip"
  /\ pages' = updatePageStatus(pages, worker[w].url, "skipped")
  /\ Return(w)
  /\ UNCHANGED << job, urlQueue, rowLocks, claimer, crawlQ, initPc,
                  cancelledJobs, monitoring, detector, ctl, hist,
                  limiterVars, urlCall, robots, exporter >>

\* await rateLimiter.acquire().
ProcessPageJob_Acquire(w) ==
  /\ worker[w].pc = "acquire"
  /\ worker' = [ worker EXCEPT ![w].pc = "crawlPage" ]
  /\ UNCHANGED << job, pages, urlQueue, rowLocks, claimer, crawlQ, initPc,
                  pageQ, cancelledJobs, monitoring, detector, ctl, hist,
                  limiterVars, urlCall, robots, exporter >>

\* isUrlAllowed(url, domain) of crawlPage, for a job that respects robots.txt.
RobotsDenies(j, url) == j.respectRobotsTxt /\ url \in Disallowed

\* await crawlPage(url, ...): throws 'URL blocked by robots.txt' when
\* robots.txt denies the URL; otherwise resolves with the page, or rejects
\* (the navigation fails, no result).
ProcessPageJob_CrawlPage(w) ==
  /\ worker[w].pc = "crawlPage"
  /\ \/ /\ RobotsDenies(job, worker[w].url)
        /\ worker' = [ worker EXCEPT ![w].pc = "storeFailure" ]
        /\ hist' = hist
     \/ /\ ~RobotsDenies(job, worker[w].url)
        /\ worker' = [ worker EXCEPT ![w].pc = "storeResult" ]
        /\ hist' = hist
     \/ /\ ~RobotsDenies(job, worker[w].url)
        /\ hist.nFaults < MaxFaults
        /\ worker' = [ worker EXCEPT ![w].pc = "storeFailure" ]
        /\ hist' = [ hist EXCEPT !.nFaults = @ + 1 ]
  /\ UNCHANGED << job, pages, urlQueue, rowLocks, claimer, crawlQ, initPc,
                  pageQ, cancelledJobs, monitoring, detector, ctl,
                  limiterVars, urlCall, robots, exporter >>

\* await updatePageStatus(normalizedUrl, 'completed', {...}).
ProcessPageJob_StoreResult(w) ==
  /\ worker[w].pc = "storeResult"
  /\ pages' = updatePageStatus(pages, worker[w].url, "completed")
  /\ worker' = [ worker EXCEPT ![w].pc = "incCrawled" ]
  /\ UNCHANGED << job, urlQueue, rowLocks, claimer, crawlQ, initPc, pageQ,
                  cancelledJobs, monitoring, detector, ctl, hist,
                  limiterVars, urlCall, robots, exporter >>

\* The for loop over filteredLinks moves to link li of worker w, or ends.
NextLink(w, li, newUrls) ==
  IF li <= Len(Links(worker[w].url))
    THEN /\ worker' = [ worker EXCEPT ![w].pc = "urlExists", ![w].li = li,
                                      ![w].newUrls = newUrls ]
         /\ pageQ' = pageQ
    ELSE IF newUrls # {}
      THEN /\ worker' = [ worker EXCEPT ![w].pc = "addPageJobs", ![w].li = li,
                                        ![w].newUrls = newUrls ]
           /\ pageQ' = pageQ
      ELSE Return(w)

\* A gate that looks at the links only.
DepthGateOpen(depth, maxDepth, filteredLinks) == Len(filteredLinks) > 0

\* if (depth < maxDepth && filteredLinks.length > 0).
DepthGate(depth, maxDepth, filteredLinks) ==
  depth < maxDepth /\ Len(filteredLinks) > 0

\* await incrementJobProgress(jobId, 'pages_crawled', 1); then the depth gate.
ProcessPageJob_IncCrawled(w) ==
  /\ worker[w].pc = "incCrawled"
  /\ job' = incrementJobProgress(job, "pagesCrawled", 1)
  /\ hist' = [ hist EXCEPT !.crawledUrls = @ \cup { worker[w].url } ]
  /\ IF DepthGate(worker[w].depth, job.maxDepth, Links(worker[w].url))
       THEN NextLink(w, 1, {})
       ELSE Return(w)
  /\ UNCHANGED << pages, urlQueue, rowLocks, claimer, crawlQ, initPc,
                  cancelledJobs, monitoring, detector, ctl,
                  limiterVars, urlCall, robots, exporter >>

\* const exists = await urlExists(jobId, normalizedLink); if (exists) continue.
ProcessPageJob_UrlExists(w) ==
  /\ worker[w].pc = "urlExists"
  /\ IF urlExists(pages, Links(worker[w].url)[worker[w].li])
       THEN NextLink(w, worker[w].li + 1, worker[w].newUrls)
       ELSE /\ worker' = [ worker EXCEPT ![w].pc = "createPage" ]
            /\ pageQ' = pageQ
  /\ UNCHANGED << job, pages, urlQueue, rowLocks, claimer, crawlQ, initPc,
                  cancelledJobs, monitoring, detector, ctl, hist,
                  limiterVars, urlCall, robots, exporter >>

\* await createPage({ jobId, url: link, normalizedUrl, depth: depth + 1 }).
ProcessPageJob_CreatePage(w) ==
  /\ worker[w].pc = "createPage"
  /\ pages' = createPage(pages, Links(worker[w].url)[worker[w].li],
                         worker[w].depth + 1)
  /\ worker' = [ worker EXCEPT ![w].pc = "incDiscovered" ]
  /\ UNCHANGED << job, urlQueue, rowLocks, claimer, crawlQ, initPc, pageQ,
                  cancelledJobs, monitoring, detector, ctl, hist,
                  limiterVars, urlCall, robots, exporter >>

\* await incrementJobProgress(jobId, 'pages_discovered', 1); newUrls.push.
ProcessPageJob_IncDiscovered(w) ==
  /\ worker[w].pc = "incDiscovered"
  /\ job' = incrementJobProgress(job, "pagesDiscovered", 1)
  /\ NextLink(w, worker[w].li + 1,
              worker[w].newUrls \cup { Links(worker[w].url)[worker[w].li] })
  /\ UNCHANGED << pages, urlQueue, rowLocks, claimer, crawlQ, initPc,
                  cancelledJobs, monitoring, detector, ctl, hist,
                  limiterVars, urlCall, robots, exporter >>

\* await addPageJobs(jobId, newUrls); the handler returns.
ProcessPageJob_AddPageJobs(w) ==
  /\ worker[w].pc = "addPageJobs"
  /\ pageQ' = [ addPageJobs(pageQ,
                  { [ nurl |-> u, depth |-> worker[w].depth + 1 ] :
                      u \in worker[w].newUrls })
                EXCEPT ![PageJobId(worker[w].url)] = JobReturned(@) ]
  /\ worker' = [ worker EXCEPT ![w] = IdleWorker ]
  /\ UNCHANGED << job, pages, urlQueue, rowLocks, claimer, crawlQ, initPc,
                  cancelledJobs, monitoring, detector, ctl, hist,
                  limiterVars, urlCall, robots, exporter >>

\* catch: await updatePageStatus(normalizedUrl, 'failed', {...}).
ProcessPageJob_StoreFailure(w) ==
  /\ worker[w].pc = "storeFailure"
  /\ pages' = updatePageStatus(pages, worker[w].url, "failed")
  /\ worker' = [ worker EXCEPT ![w].pc = "incFailed" ]
  /\ UNCHANGED << job, urlQueue, rowLocks, claimer, crawlQ, initPc, pageQ,
                  cancelledJobs, monitoring, detector, ctl, hist,
                  limiterVars, urlCall, robots, exporter >>

\* catch: await incrementJobProgress(jobId, 'pages_failed', 1); throw error.
ProcessPageJob_IncFailed(w) ==
  /\ worker[w].pc = "incFailed"
  /\ job' = incrementJobProgress(job, "pagesFailed", 1)
  /\ Throw(w)
  /\ UNCHANGED << pages, urlQueue, rowLocks, claimer, crawlQ, initPc,
                  cancelledJobs, monitoring, detector, ctl, hist,
                  limiterVars, urlCall, robots, exporter >>

processPageJob ==
  \E w \in Workers :
    \/ \E k \in URLs : ProcessPageJob_Start(w, k)
    \/ ProcessPageJob_GetJob(w)
    \/ ProcessPageJob_Skip(w)
    \/ ProcessPageJob_Acquire(w)
    \/ ProcessPageJob_CrawlPage(w)
    \/ ProcessPageJob_StoreResult(w)
    \/ ProcessPageJob_IncCrawled(w)
    \/ ProcessPageJob_UrlExists(w)
    \/ ProcessPageJob_CreatePage(w)
    \/ ProcessPageJob_IncDiscovered(w)
    \/ ProcessPageJob_AddPageJobs(w)
    \/ ProcessPageJob_StoreFailure(w)
    \/ ProcessPageJob_IncFailed(w)

\* ------------------------------------------------------------ jobManager
\* startJobMonitoring(jobId): registers the 10 s interval, unless the job is
\* already monitored.
StartJobMonitoring ==
  /\ job.exists /\ ~monitoring
  /\ monitoring' = TRUE
  /\ UNCHANGED << job, pages, urlQueue, rowLocks, claimer, crawlQ, initPc,
                  pageQ, worker, cancelledJobs, detector, ctl, hist,
                  limiterVars, urlCall, robots, exporter >>

\* isComplete of checkJobCompletion, from what the probe has read.
isComplete(pendingCount, queueStats) ==
  pendingCount = 0 /\ queueStats.pending = 0 /\ queueStats.crawling = 0

\* finalStatus of checkJobCompletion, from the job row the probe has read.
finalStatus(j) ==
  IF j.pagesFailed > 0 /\ j.pagesCrawled = 0 THEN "failed" ELSE "completed"

\* The interval fires: const job = await getJobById(jobId); the terminal
\* check and the isJobCancelled check on the row just read.  finalStatus is
\* computed later, from this row.
CheckJobCompletion_GetJob ==
  /\ monitoring /\ detector.pc = "idle"
  /\ IF ~job.exists \/ job.status \in Terminal
       THEN /\ monitoring' = FALSE
            /\ detector' = detector
       ELSE /\ monitoring' = monitoring
            /\ detector' = [ IdleDetector EXCEPT
                 !.pc = IF cancelledJobs THEN "cancelled" ELSE "getQueueStats",
                 !.finalStatus = finalStatus(job) ]
  /\ UNCHANGED << job, pages, urlQueue, rowLocks, claimer, crawlQ, initPc,
                  pageQ, worker, cancelledJobs, ctl, hist,
                  limiterVars, urlCall, robots, exporter >>

\* await updateJobStatus(jobId, 'cancelled', ...); stopJobMonitoring(jobId).
CheckJobCompletion_Cancelled ==
  /\ detector.pc = "cancelled"
  /\ job' = updateJobStatus(job, "cancelled")
  /\ monitoring' = FALSE
  /\ detector' = IdleDetector
  /\ UNCHANGED << pages, urlQueue, rowLocks, claimer, crawlQ, initPc, pageQ,
                  worker, cancelledJobs, ctl, hist,
                  limiterVars, urlCall, robots, exporter >>

\* const queueStats = await getQueueStats(jobId).
CheckJobCompletion_GetQueueStats ==
  /\ detector.pc = "getQueueStats"
  /\ detector' = [ detector EXCEPT !.pc = "getPendingCount",
                     !.pending = getQueueStats(urlQueue).pending,
                     !.crawling = getQueueStats(urlQueue).crawling ]
  /\ UNCHANGED << job, pages, urlQueue, rowLocks, claimer, crawlQ, initPc,
                  pageQ, worker, cancelledJobs, monitoring, ctl, hist,
                  limiterVars, urlCall, robots, exporter >>

\* const pendingCount = await getPendingCount(jobId); isComplete.  The probe
\* ends here when the job is not complete.
CheckJobCompletion_GetPendingCount ==
  /\ detector.pc = "getPendingCount"
  /\ IF isComplete(getPendingCount(urlQueue), detector)
       THEN /\ detector' = [ detector EXCEPT !.pc = "updateJobStatus" ]
            /\ hist' = [ hist EXCEPT !.zeroObs = IF @ < 2 THEN @ + 1 ELSE @ ]
       ELSE /\ detector' = IdleDetector
            /\ hist' = [ hist EXCEPT !.zeroObs = 0 ]
  /\ UNCHANGED << job, pages, urlQueue, rowLocks, claimer, crawlQ, initPc,
                  pageQ, worker, cancelledJobs, monitoring, ctl,
                  limiterVars, urlCall, robots, exporter >>

\* await updateJobStatus(jobId, finalStatus, ...); stopJobMonitoring(jobId).
CheckJobCompletion_UpdateJobStatus ==
  /\ detector.pc = "updateJobStatus"
  /\ job' = updateJobStatus(job, detector.finalStatus)
  /\ monitoring' = FALSE
  /\ detector' = IdleDetector
  /\ UNCHANGED << pages, urlQueue, rowLocks, claimer, crawlQ, initPc, pageQ,
                  worker, cancelledJobs, ctl, hist,
                  limiterVars, urlCall, robots, exporter >>

checkJobCompletion ==
  \/ CheckJobCompletion_GetJob
  \/ CheckJobCompletion_Cancelled
  \/ CheckJobCompletion_GetQueueStats
  \/ CheckJobCompletion_GetPendingCount
  \/ CheckJobCompletion_UpdateJobStatus

\* ------------------------------------------------- DELETE /api/jobs/:jobId
IdleCtl == [ op |-> "idle", pc |-> "idle" ]

\* const job = await getJobById(jobId); 400 when the job is completed or
\* cancelled; otherwise cancelCrawlJob starts: markJobCancelled(jobId).
CancelRoute_GetJob ==
  /\ ctl.op = "idle" /\ job.exists
  /\ hist.nReq < MaxRequests
  /\ IF job.status = "completed" \/ job.status = "cancelled"
       THEN /\ ctl' = ctl
            /\ cancelledJobs' = cancelledJobs
            /\ hist' = hist
       ELSE /\ ctl' = [ op |-> "cancel", pc |-> "removeJobsForCrawl" ]
            /\ cancelledJobs' = TRUE
            /\ hist' = [ hist EXCEPT !.nReq = @ + 1 ]
  /\ UNCHANGED << job, pages, urlQueue, rowLocks, claimer, crawlQ, initPc,
                  pageQ, worker, monitoring, detector,
                  limiterVars, urlCall, robots, exporter >>

\* cancelCrawlJob: await removeJobsForCrawl(jobId).
CancelRoute_RemoveJobsForCrawl ==
  /\ ctl = [ op |-> "cancel", pc |-> "removeJobsForCrawl" ]
  /\ pageQ' = removeJobsForCrawl(pageQ)
  /\ ctl' = [ ctl EXCEPT !.pc = "clearQueue" ]
  /\ UNCHANGED << job, pages, urlQueue, rowLocks, claimer, crawlQ, initPc,
                  worker, cancelledJobs, monitoring, detector, hist,
                  limiterVars, urlCall, robots, exporter >>

\* cancelCrawlJob: await clearQueue(jobId); stopJobMonitoring(jobId).
CancelRoute_ClearQueue ==
  /\ ctl = [ op |-> "cancel", pc |-> "clearQueue" ]
  /\ urlQueue' = clearQueue(urlQueue)
  /\ monitoring' = FALSE
  /\ ctl' = [ ctl EXCEPT !.pc = "updateJobStatus" ]
  /\ UNCHANGED << job, pages, rowLocks, claimer, crawlQ, initPc, pageQ,
                  worker, cancelledJobs, detector, hist,
                  limiterVars, urlCall, robots, exporter >>

\* await updateJobStatus(jobId, 'cancelled', { completedAt }).
CancelRoute_UpdateJobStatus ==
  /\ ctl = [ op |-> "cancel", pc |-> "updateJobStatus" ]
  /\ job' = updateJobStatus(job, "cancelled")
  /\ ctl' = IdleCtl
  /\ UNCHANGED << pages, urlQueue, rowLocks, claimer, crawlQ, initPc, pageQ,
                  worker, cancelledJobs, monitoring, detector, hist,
                  limiterVars, urlCall, robots, exporter >>

CancelRoute ==
  \/ CancelRoute_GetJob
  \/ CancelRoute_RemoveJobsForCrawl
  \/ CancelRoute_ClearQueue
  \/ CancelRoute_UpdateJobStatus

\* --------------------------------------------- POST /api/jobs/:jobId/pause
\* const job = await getJobById(jobId); 400 unless the job is running.
PauseRoute_GetJob ==
  /\ ctl.op = "idle" /\ job.exists
  /\ hist.nReq < MaxRequests
  /\ IF job.status # "running"
       THEN ctl' = ctl /\ hist' = hist
       ELSE /\ ctl' = [ op |-> "pause", pc |-> "updateJobStatus" ]
            /\ hist' = [ hist EXCEPT !.nReq = @ + 1 ]
  /\ UNCHANGED << job, pages, urlQueue, rowLocks, claimer, crawlQ, initPc,
                  pageQ, worker, cancelledJobs, monitoring, detector,
                  limiterVars, urlCall, robots, exporter >>

\* await updateJobStatus(jobId, 'paused').
PauseRoute_UpdateJobStatus ==
  /\ ctl = [ op |-> "pause", pc |-> "updateJobStatus" ]
  /\ job' = updateJobStatus(job, "paused")
  /\ ctl' = IdleCtl
  /\ UNCHANGED << pages, urlQueue, rowLocks, claimer, crawlQ, initPc, pageQ,
                  worker, cancelledJobs, monitoring, detector, hist,
                  limiterVars, urlCall, robots, exporter >>

PauseRoute == PauseRoute_GetJob \/ PauseRoute_UpdateJobStatus

\* -------------------------------------------- POST /api/jobs/:jobId/resume
\* const job = await getJobById(jobId); 400 unless the job is paused.  The
\* route (op "resume") and jobManager's resumeCrawlJob (op "resumeCrawlJob")
\* read the job the same way.
ResumeRoute_GetJob(op) ==
  /\ ctl.op = "idle" /\ job.exists
  /\ hist.nReq < MaxRequests
  /\ IF job.status # "paused"
       THEN ctl' = ctl /\ hist' = hist
       ELSE /\ ctl' = [ op |-> op, pc |-> "updateJobStatus" ]
            /\ hist' = [ hist EXCEPT !.nReq = @ + 1 ]
  /\ UNCHANGED << job, pages, urlQueue, rowLocks, claimer, crawlQ, initPc,
                  pageQ, worker, cancelledJobs, monitoring, detector,
                  limiterVars, urlCall, robots, exporter >>

\* The route: await updateJobStatus(jobId, 'running').
ResumeRoute_UpdateJobStatus ==
  /\ ctl = [ op |-> "resume", pc |-> "updateJobStatus" ]
  /\ job' = updateJobStatus(job, "running")
  /\ ctl' = IdleCtl
  /\ UNCHANGED << pages, urlQueue, rowLocks, claimer, crawlQ, initPc, pageQ,
                  worker, cancelledJobs, monitoring, detector, hist,
                  limiterVars, urlCall, robots, exporter >>

\* resumeCrawlJob: await updateJobStatus(jobId, 'running');
\* startJobMonitoring(jobId).
ResumeCrawlJob_UpdateJobStatus ==
  /\ ctl = [ op |-> "resumeCrawlJob", pc |-> "updateJobStatus" ]
  /\ job' = updateJobStatus(job, "running")
  /\ monitoring' = TRUE
  /\ ctl' = IdleCtl
  /\ UNCHANGED << pages, urlQueue, rowLocks, claimer, crawlQ, initPc, pageQ,
                  worker, cancelledJobs, detector, hist,
                  limiterVars, urlCall, robots, exporter >>

ResumeRoute ==
  \/ ResumeRoute_GetJob("resume")
  \/ ResumeRoute_UpdateJobStatus

resumeCrawlJob ==
  \/ ResumeRoute_GetJob("resumeCrawlJob")
  \/ ResumeCrawlJob_UpdateJobStatus

\* ------------------------------------------- the frontier (queueRepository)
\* Bound on the `limit` argument of getNextFromQueue.
MaxLimit == 2

\* The same subquery without row locks: rows locked by another statement are
\* selected again.
SelectPendingNoLock(Q, locks, limit) ==
  LET cand == { u \in URLs : Q[u] = "pending" }
  IN  { u \in cand : Cardinality({ v \in cand : v < u }) < limit }

\* SELECT id FROM url_queue WHERE job_id = $1 AND status = 'pending'
\* ORDER BY priority DESC, created_at ASC LIMIT $2 FOR UPDATE SKIP LOCKED.
\* No insert sets priority, so rows are ordered by creation, here by URL.
SelectPending(Q, locks, limit) ==
  LET cand == { u \in URLs : Q[u] = "pending" /\ u \notin locks }
  IN  { u \in cand : Cardinality({ v \in cand : v < u }) < limit }

\* UPDATE url_queue SET status = $2 WHERE id = $1.
updateQueueItemStatus(Q, id, status) ==
  [ u \in URLs |-> IF u = id /\ Q[u] # "none" THEN status ELSE Q[u] ]

\* getNextFromQueue(jobId, limit): the subquery selects and locks its rows.
GetNextFromQueue_Select(c, limit) ==
  /\ claimer[c].pc = "idle"
  /\ claimer' = [ claimer EXCEPT ![c].pc = "update",
                    ![c].rows = SelectPending(urlQueue, rowLocks, limit) ]
  /\ rowLocks' = rowLocks \cup SelectPending(urlQueue, rowLocks, limit)
  /\ UNCHANGED << job, pages, urlQueue, crawlQ, initPc, pageQ, worker,
                  cancelledJobs, monitoring, detector, ctl, hist,
                  limiterVars, urlCall, robots, exporter >>

\* getNextFromQueue: SET status = 'crawling' on the selected rows, RETURNING *;
\* the statement commits and its locks are released.
GetNextFromQueue_Update(c) ==
  /\ claimer[c].pc = "update"
  /\ urlQueue' = [ u \in URLs |-> IF u \in claimer[c].rows THEN "crawling"
                                  ELSE urlQueue[u] ]
  /\ rowLocks' = rowLocks \ claimer[c].rows
  /\ claimer' = [ claimer EXCEPT ![c].pc = "idle", ![c].rows = {},
                    ![c].claims = @ \cup claimer[c].rows ]
  /\ UNCHANGED << job, pages, crawlQ, initPc, pageQ, worker, cancelledJobs,
                  monitoring, detector, ctl, hist,
                  limiterVars, urlCall, robots, exporter >>

\* The holder of a claim ends it: updateQueueItemStatus(id, status).
UpdateQueueItemStatus(c, r, status) ==
  /\ r \in claimer[c].claims
  /\ urlQueue' = updateQueueItemStatus(urlQueue, r, status)
  /\ claimer' = [ claimer EXCEPT ![c].claims = @ \ { r } ]
  /\ UNCHANGED << job, pages, rowLocks, crawlQ, initPc, pageQ, worker,
                  cancelledJobs, monitoring, detector, ctl, hist,
                  limiterVars, urlCall, robots, exporter >>

\* Bound on the calls of requeueFailedItems; at most maxRetries = 3, so that
\* retry_count < maxRetries holds for every failed entry at each call.
MaxRequeues == 1

\* UPDATE url_queue SET status = 'pending', retry_count = retry_count + 1
\* WHERE job_id = $1 AND status = 'failed' AND retry_count < $2.
requeueFailedItems(Q) ==
  [ u \in URLs |-> IF Q[u] = "failed" THEN "pending" ELSE Q[u] ]

\* requeueFailedItems(jobId) on a frontier that has failed entries.
RequeueFailedItems ==
  /\ hist.nRequeues < MaxRequeues
  /\ \E u \in URLs : urlQueue[u] = "failed"
  /\ urlQueue' = requeueFailedItems(urlQueue)
  /\ hist' = [ hist EXCEPT
       !.nRequeues = @ + 1,
       !.requeued = @ \cup { u \in URLs : urlQueue[u] = "failed" } ]
  /\ UNCHANGED << job, pages, rowLocks, claimer, crawlQ, initPc, pageQ,
                  worker, cancelledJobs, monitoring, detector, ctl,
                  limiterVars, urlCall, robots, exporter >>

\* A frontier of the job in any state that claimers have not touched yet.
QueueInit ==
  /\ urlQueue \in [ URLs -> { "none", "pending", "completed" } ]
  /\ job = createJob(MaxPages, TRUE, MaxDepth)
  /\ pages = {}
  /\ rowLocks = {}
  /\ claimer = [ c \in Claimers |-> IdleClaimer ]
  /\ crawlQ = [ state |-> "none", attemptsMade |-> 0 ]
  /\ initPc = "idle"
  /\ pageQ = EmptyPageQ
  /\ worker = [ w \in Workers |-> IdleWorker ]
  /\ cancelledJobs = FALSE
  /\ monitoring = FALSE
  /\ detector = IdleDetector
  /\ ctl = IdleCtl
  /\ rateLimiter = NewRateLimiter(MaxDelay)
  /\ clock = StartTime
  /\ caller = [ c \in Callers |-> "idle" ]
  /\ urlCall = NoUrlCall
  /\ robots = NoRobots
  /\ exporter = NoExport
  /\ hist = NoHist

QueueNext ==
  \E c \in Claimers :
    \/ \E limit \in 1 .. MaxLimit : GetNextFromQueue_Select(c, limit)
    \/ GetNextFromQueue_Update(c)
    \/ \E r \in URLs, st \in { "completed", "failed", "pending" } :
         UpdateQueueItemStatus(c, r, st)

\* Concurrent callers of getNextFromQueue on one frontier.
QueueSpec == QueueInit /\ [][QueueNext]_vars

\* One caller of getNextFromQueue, and requeueFailedItems.
RequeueNext ==
  \/ \E limit \in 1 .. MaxLimit : GetNextFromQueue_Select(1, limit)
  \/ GetNextFromQueue_Update(1)
  \/ \E r \in URLs, st \in { "completed", "failed", "pending" } :
       UpdateQueueItemStatus(1, r, st)
  \/ RequeueFailedItems

RequeueSpec == QueueInit /\ [][RequeueNext]_vars

\* ---------------------------------------------- RateLimiter (rateLimiter.ts)
crawlVars == << job, pages, urlQueue, rowLocks, claimer, crawlQ, initPc,
                pageQ, worker, cancelledJobs, monitoring, detector, ctl >>

\* A wait computed without lastRequest: every request is taken to be the
\* first one.
waitTimeNoLast(delayMs, now, lastRequest) ==
  IF delayMs - now > 0 THEN delayMs - now ELSE 0

\* const elapsed = now - this.lastRequest;
\* const waitTime = Math.max(0, this.delayMs - elapsed).
waitTime(delayMs, now, lastRequest) ==
  IF delayMs - (now - lastRequest) > 0 THEN delayMs - (now - lastRequest) ELSE 0

\* The newest entry of the queue: what pop() would take.
LastItem(q) == [ item |-> q[Len(q)], rest |-> SubSeq(q, 1, Len(q) - 1) ]

\* this.queue.shift(): the oldest entry, and the queue without it.
ShiftItem(q) == [ item |-> Head(q), rest |-> Tail(q) ]

\* The flag stays set when the loop has ended.
EndProcessKeepsFlag(rl) == [ rl EXCEPT !.pc = "idle" ]

\* The while loop has ended: this.processing = false, and process() returns.
EndProcess(rl) == [ rl EXCEPT !.processing = FALSE, !.pc = "idle" ]

\* process() from the head of its while loop, at time t, up to its next
\* await; `released` are the items resolved on the way.
RECURSIVE ProcessLoop(_, _, _)

\* process() from the delay computation on: sleeps for waitTime, or sets
\* lastRequest, resolves the item and goes round the loop.
CheckDelay(rl, t, released) ==
  LET w == waitTime(rl.delayMs, rl.now, rl.lastRequest)
  IN  IF w > 0
        THEN [ rl |-> [ rl EXCEPT !.pc = "sleepDelay", !.wakeAt = t + w ],
               released |-> released ]
        ELSE ProcessLoop([ rl EXCEPT !.lastRequest = t ], t,
                         Append(released, rl.item))

\* The loop ends, or an item is shifted and `now` is read; a throttle window
\* that is open at `now` is slept out first.
ProcessLoop(rl, t, released) ==
  IF rl.queue = << >>
    THEN [ rl |-> EndProcess(rl), released |-> released ]
    ELSE LET r == [ rl EXCEPT !.item = ShiftItem(rl.queue).item,
                              !.queue = ShiftItem(rl.queue).rest,
                              !.now = t ]
         IN  IF r.throttleUntil > t
               THEN [ rl |-> [ r EXCEPT !.pc = "sleepThrottle",
                                        !.wakeAt = t + (r.throttleUntil - t) ],
                      released |-> released ]
               ELSE CheckDelay(r, t, released)

\* The two latest entries of a history.
LastTwo(h) == IF Len(h) > 2 THEN SubSeq(h, Len(h) - 1, Len(h)) ELSE h

\* The limiter moves to res.rl; item.resolve() lets each released caller go
\* on to its fetch.
Proceed(res, callers, nAcquired) ==
  /\ rateLimiter' = res.rl
  /\ caller' = [ c \in Callers |->
       IF \E i \in 1 .. Len(res.released) : res.released[i].caller = c
         THEN "fetching" ELSE callers[c] ]
  /\ hist' = [ hist EXCEPT
       !.nAcquired = nAcquired,
       !.nReleased = @ + Len(res.released),
       !.releases = LastTwo(@ \o [ i \in 1 .. Len(res.released) |->
                       [ ticket |-> res.released[i].ticket, at |-> clock ] ]) ]

\* acquire(): this.queue.push({ resolve }); this.process().  process()
\* returns at once when it is already running.  Callers are alike: the
\* first idle one calls.
RateLimiter_Acquire(c) ==
  /\ caller[c] = "idle"
  /\ \A v \in Callers : v < c => caller[v] # "idle"
  /\ hist.nAcquired < MaxAcquires
  /\ LET pushed == [ rateLimiter EXCEPT !.queue = Append(@,
                       [ caller |-> c, ticket |-> hist.nAcquired + 1 ]) ]
     IN  Proceed(IF rateLimiter.processing
                   THEN [ rl |-> pushed, released |-> << >> ]
                   ELSE ProcessLoop([ pushed EXCEPT !.processing = TRUE ],
                                    clock, << >>),
                 [ caller EXCEPT ![c] = "waiting" ], hist.nAcquired + 1)
  /\ UNCHANGED << clock, crawlVars, urlCall, robots, exporter >>

\* await this.sleep(this.throttleUntil - now) ends: the timer is due.
RateLimiter_ThrottleSleepEnds ==
  /\ rateLimiter.pc = "sleepThrottle"
  /\ clock >= rateLimiter.wakeAt
  /\ Proceed(CheckDelay(rateLimiter, clock, << >>), caller, hist.nAcquired)
  /\ UNCHANGED << clock, crawlVars, urlCall, robots, exporter >>

\* await this.sleep(waitTime) ends: this.lastRequest = Date.now();
\* item.resolve(); the loop goes round.
RateLimiter_DelaySleepEnds ==
  /\ rateLimiter.pc = "sleepDelay"
  /\ clock >= rateLimiter.wakeAt
  /\ Proceed(ProcessLoop([ rateLimiter EXCEPT !.lastRequest = clock ], clock,
                         << rateLimiter.item >>), caller, hist.nAcquired)
  /\ UNCHANGED << clock, crawlVars, urlCall, robots, exporter >>

\* throttle(durationMs): this.throttleUntil = Date.now() + durationMs.
RateLimiter_Throttle(durationMs) ==
  /\ rateLimiter.throttleUntil # clock + durationMs
  /\ rateLimiter' = [ rateLimiter EXCEPT !.throttleUntil = clock + durationMs ]
  /\ UNCHANGED << clock, caller, hist, crawlVars, urlCall, robots, exporter >>

\* setDelay(delayMs): this.delayMs = delayMs.
RateLimiter_SetDelay(delayMs) ==
  /\ rateLimiter.delayMs # delayMs
  /\ rateLimiter' = [ rateLimiter EXCEPT !.delayMs = delayMs ]
  /\ hist' = [ hist EXCEPT !.delayChanged = TRUE ]
  /\ UNCHANGED << clock, caller, crawlVars, urlCall, robots, exporter >>

\* The caller's fetch (await crawlPage) settles; nothing bounds its duration
\* from below or by delayMs.
CrawlPage_Settles(c) ==
  /\ caller[c] = "fetching"
  /\ caller' = [ caller EXCEPT ![c] = "idle" ]
  /\ UNCHANGED << rateLimiter, clock, hist, crawlVars, urlCall, robots, exporter >>

\* Date.now() advances.
Tick ==
  /\ clock < StartTime + MaxTime
  /\ clock' = clock + 1
  /\ UNCHANGED << rateLimiter, caller, hist, crawlVars, urlCall, robots, exporter >>

\* One limiter with any configured delayMs, before its first request.
LimiterInit ==
  /\ rateLimiter \in { NewRateLimiter(d) : d \in 1 .. MaxDelay }
  /\ clock = StartTime
  /\ caller = [ c \in Callers |-> "idle" ]
  /\ urlCall = NoUrlCall
  /\ robots = NoRobots
  /\ exporter = NoExport
  /\ hist = NoHist
  /\ job = NoJob
  /\ pages = {}
  /\ urlQueue = EmptyQueue
  /\ rowLocks = {}
  /\ claimer = [ c \in Claimers |-> IdleClaimer ]
  /\ crawlQ = [ state |-> "none", attemptsMade |-> 0 ]
  /\ initPc = "idle"
  /\ pageQ = EmptyPageQ
  /\ worker = [ w \in Workers |-> IdleWorker ]
  /\ cancelledJobs = FALSE
  /\ monitoring = FALSE
  /\ detector = IdleDetector
  /\ ctl = IdleCtl

LimiterNext ==
  \/ \E c \in Callers : RateLimiter_Acquire(c)
  \/ RateLimiter_ThrottleSleepEnds
  \/ RateLimiter_DelaySleepEnds
  \/ \E d \in 1 .. MaxThrottle : RateLimiter_Throttle(d)
  \/ \E d \in 1 .. MaxDelay : RateLimiter_SetDelay(d)
  \/ \E c \in Callers : CrawlPage_Settles(c)
  \/ Tick

\* Concurrent page handlers on the RateLimiter of one domain.
LimiterSpec == LimiterInit /\ [][LimiterNext]_vars

\* Date.now() advances, also past the horizon of the model while a timer of
\* the limiter is pending: a sleep always comes to its due time.
TimePasses ==
  /\ \/ clock < StartTime + LiveTime
     \/ rateLimiter.pc # "idle" /\ clock < rateLimiter.wakeAt
  /\ clock' = clock + 1
  /\ UNCHANGED << rateLimiter, caller, hist, crawlVars, urlCall, robots, exporter >>

LimiterLiveNext ==
  \/ \E c \in Callers : RateLimiter_Acquire(c)
  \/ RateLimiter_ThrottleSleepEnds
  \/ RateLimiter_DelaySleepEnds
  \/ \E d \in 1 .. MaxThrottle : RateLimiter_Throttle(d)
  \/ \E d \in 1 .. MaxDelay : RateLimiter_SetDelay(d)
  \/ \E c \in Callers : CrawlPage_Settles(c)
  \/ TimePasses

\* The limiter under the scheduling of the event loop: time passes, and a
\* timer that is due fires (setTimeout in sleep()).
LimiterLiveSpec ==
  /\ LimiterInit
  /\ [][LimiterLiveNext]_vars
  /\ WF_vars(TimePasses)
  /\ WF_vars(RateLimiter_ThrottleSleepEnds)
  /\ WF_vars(RateLimiter_DelaySleepEnds)

\* ------------------------------------------- links of a page (crawler.ts)
\* extractLinks meets the first href of a page of a job on urlCall.domain.
ExtractLinks_FirstHref(url) ==
  /\ urlCall.pc = "start"
  /\ urlCall' = [ urlCall EXCEPT !.pc = "one",
                                 !.first = LinkOf(url, urlCall.domain) ]
  /\ UNCHANGED << hist, limiterVars, crawlVars, robots, exporter >>

\* extractLinks meets the second href of the page.
ExtractLinks_SecondHref(url) ==
  /\ urlCall.pc = "one"
  /\ urlCall' = [ urlCall EXCEPT !.pc = "two",
                                 !.second = LinkOf(url, urlCall.domain) ]
  /\ UNCHANGED << hist, limiterVars, crawlVars, robots, exporter >>

\* processPageJob: const normalizedLink = normalizeUrl(link), on a link that
\* extractLinks returned normalized.
ProcessPageJob_NormalizeLink ==
  /\ urlCall.pc = "one"
  /\ urlCall' = [ urlCall EXCEPT !.pc = "again",
                    !.normalizedLink = normalizeUrl(urlCall.first.normalized) ]
  /\ UNCHANGED << hist, limiterVars, crawlVars, robots, exporter >>

\* A page of a job on any domain, before its hrefs are read.
UrlInit ==
  /\ urlCall \in { [ NoUrlCall EXCEPT !.domain = d ] : d \in Domains }
  /\ robots = NoRobots
  /\ exporter = NoExport
  /\ job = NoJob
  /\ pages = {}
  /\ urlQueue = EmptyQueue
  /\ rowLocks = {}
  /\ claimer = [ c \in Claimers |-> IdleClaimer ]
  /\ crawlQ = [ state |-> "none", attemptsMade |-> 0 ]
  /\ initPc = "idle"
  /\ pageQ = EmptyPageQ
  /\ worker = [ w \in Workers |-> IdleWorker ]
  /\ cancelledJobs = FALSE
  /\ monitoring = FALSE
  /\ detector = IdleDetector
  /\ ctl = IdleCtl
  /\ rateLimiter = NewRateLimiter(MaxDelay)
  /\ clock = StartTime
  /\ caller = [ c \in Callers |-> "idle" ]
  /\ hist = NoHist

UrlNext ==
  \/ \E url \in Hrefs : ExtractLinks_FirstHref(url)
  \/ \E url \in Hrefs : ExtractLinks_SecondHref(url)
  \/ ProcessPageJob_NormalizeLink

\* normalizeUrl and isInDomain on the hrefs of one page.
UrlSpec == UrlInit /\ [][UrlNext]_vars

\* --------------------------------------------- getRobotsParser (robots.ts)
\* getRobotsParser(domain) is called (by isUrlAllowed or checkRobotsTxt): a
\* memoryCache entry that has not expired answers at once; otherwise
\* await getCachedRobots(domain).
GetRobotsParser_Start ==
  /\ robots.pc = "idle"
  /\ hist.nRobotsCalls < MaxRobotsCalls
  /\ hist' = [ hist EXCEPT !.nRobotsCalls = @ + 1 ]
  /\ robots' = IF /\ robots.memoryCache.exists
                  /\ robots.memoryCache.expiresAt > clock
                 THEN [ robots EXCEPT !.parser = "parser" ]
                 ELSE [ robots EXCEPT !.pc = "getCachedRobots" ]
  /\ UNCHANGED << limiterVars, crawlVars, urlCall, exporter >>

\* SELECT * FROM robots_cache WHERE domain = $1 AND expires_at > NOW()
\* resolves: `dbCache && dbCache.robotsTxt` fills memoryCache and returns the
\* parser; otherwise fetchRobotsTxt sends its request to https://domain.
GetRobotsParser_GetCachedRobots ==
  /\ robots.pc = "getCachedRobots"
  /\ LET dbCache == robots.row.exists /\ robots.row.expiresAt > clock
     IN  IF dbCache /\ robots.row.robotsTxt # "null"
           THEN /\ robots' = [ robots EXCEPT
                     !.pc = "idle", !.parser = "parser",
                     !.memoryCache = [ exists |-> TRUE,
                                       expiresAt |-> robots.row.expiresAt ] ]
                /\ hist' = hist
           ELSE /\ robots' = [ robots EXCEPT !.pc = "fetchHttps" ]
                /\ hist' = [ hist EXCEPT !.nRobotsFetches = @ + 1 ]
  /\ UNCHANGED << limiterVars, crawlVars, urlCall, exporter >>

\* The https request settles: the text, null on 404, or on any other failure
\* the fallback request to http://domain.
FetchRobotsTxt_Https(outcome) ==
  /\ robots.pc = "fetchHttps"
  /\ robots' = CASE outcome = "ok" ->
                      [ robots EXCEPT !.pc = "cacheRobots",
                                      !.robotsTxt = "text" ]
                 [] outcome = "404" ->
                      [ robots EXCEPT !.pc = "cacheRobots",
                                      !.robotsTxt = "null" ]
                 [] OTHER -> [ robots EXCEPT !.pc = "fetchHttp" ]
  /\ UNCHANGED << hist, limiterVars, crawlVars, urlCall, exporter >>

\* The fallback request settles: the text when it is ok, null otherwise.
FetchRobotsTxt_Http(ok) ==
  /\ robots.pc = "fetchHttp"
  /\ robots' = [ robots EXCEPT !.pc = "cacheRobots",
                               !.robotsTxt = IF ok THEN "text" ELSE "null" ]
  /\ UNCHANGED << hist, limiterVars, crawlVars, urlCall, exporter >>

\* await cacheRobots(domain, robotsTxt | null, ...): the upsert with
\* expires_at = NOW() + 24 hours; with a text, memoryCache.set as well.
GetRobotsParser_CacheRobots ==
  /\ robots.pc = "cacheRobots"
  /\ robots' = [ robots EXCEPT
       !.pc = "idle",
       !.row = [ exists |-> TRUE, robotsTxt |-> robots.robotsTxt,
                 expiresAt |-> clock + RobotsTtl ],
       !.memoryCache = IF robots.robotsTxt # "null"
                         THEN [ exists |-> TRUE,
                                expiresAt |-> clock + RobotsTtl ]
                         ELSE @,
       !.parser = IF robots.robotsTxt # "null" THEN "parser" ELSE "none" ]
  /\ UNCHANGED << hist, limiterVars, crawlVars, urlCall, exporter >>

\* Repeated robots.txt checks of one domain over time.
RobotsNext ==
  \/ GetRobotsParser_Start
  \/ GetRobotsParser_GetCachedRobots
  \/ \E outcome \in { "ok", "404", "error" } : FetchRobotsTxt_Https(outcome)
  \/ \E ok \in BOOLEAN : FetchRobotsTxt_Http(ok)
  \/ GetRobotsParser_CacheRobots
  \/ Tick

RobotsSpec == Init /\ [][RobotsNext]_vars

\* ------------------------------------------ GET /:jobId/export (pages.ts)
\* updatePageStatus(id, 'completed', { crawledAt: new Date(), ... }) on the
\* row of a page that is not completed yet.
UpdatePageStatus_Completed(id) ==
  /\ id \in exporter.pending
  /\ exporter' = [ exporter EXCEPT !.listing = << id >> \o @,
                                   !.pending = @ \ { id } ]
  /\ UNCHANGED << hist, limiterVars, crawlVars, urlCall, robots >>

\* The route starts: getJobById, the headers, offset = 0.
ExportRoute_Start ==
  /\ exporter.pc = "idle"
  /\ exporter' = [ exporter EXCEPT
       !.pc = "getPages", !.offset = 0, !.emitted = << >>,
       !.before = { exporter.listing[i] : i \in 1 .. Len(exporter.listing) } ]
  /\ UNCHANGED << hist, limiterVars, crawlVars, urlCall, robots >>

\* await getPagesByJobId(jobId, { limit: batchSize, offset, status:
\* 'completed' }); the batch is written; the loop ends on an empty or a
\* short batch, otherwise offset += batchSize.
ExportRoute_GetPages ==
  /\ exporter.pc = "getPages"
  /\ LET last == IF exporter.offset + BatchSize < Len(exporter.listing)
                   THEN exporter.offset + BatchSize
                   ELSE Len(exporter.listing)
         batch == SubSeq(exporter.listing, exporter.offset + 1, last)
     IN  exporter' = [ exporter EXCEPT
           !.emitted = @ \o batch,
           !.offset = IF batch = << >> THEN @ ELSE @ + BatchSize,
           !.pc = IF Len(batch) < BatchSize THEN "done" ELSE "getPages" ]
  /\ UNCHANGED << hist, limiterVars, crawlVars, urlCall, robots >>

\* One export of a job while pages of the job are being completed.
ExportNext ==
  \/ \E id \in PageIds : UpdatePageStatus_Completed(id)
  \/ ExportRoute_Start
  \/ ExportRoute_GetPages

ExportSpec == Init /\ [][ExportNext]_vars

\* --------------------------------------------------------- specifications
\* The crawl itself: the crawl endpoint and the two queue workers.
WorkNext == CrawlRoute \/ processCrawlJob \/ processPageJob

WorkSpec == Init /\ [][WorkNext]_vars

\* The crawl of a job whose maxDepth reaches every URL of the origin.
DeepNext == CrawlRequest(MaxDepth + 1) \/ processCrawlJob \/ processPageJob

DeepSpec == Init /\ [][DeepNext]_vars

\* The whole engine: workers, job manager and control routes.
Next ==
  \/ CrawlRoute
  \/ processCrawlJob
  \/ processPageJob
  \/ StartJobMonitoring
  \/ checkJobCompletion
  \/ CancelRoute
  \/ PauseRoute
  \/ ResumeRoute
  \/ resumeCrawlJob

Spec == Init /\ [][Next]_vars

\* A job that is never paused and never cancelled: isJobCancelled(jobId) is
\* false throughout, so checkJobCompletion never takes its cancelled branch.
LiveNext ==
  \/ CrawlRoute
  \/ processCrawlJob
  \/ processPageJob
  \/ StartJobMonitoring
  \/ CheckJobCompletion_GetJob
  \/ CheckJobCompletion_GetQueueStats
  \/ CheckJobCompletion_GetPendingCount
  \/ CheckJobCompletion_UpdateJobStatus

\* ------------------------------------------------------- process restart
\* Bound on the restarts of the server process in one run.
MaxRestarts == 1

\* BullMQ after the worker holding an active job is gone: the job's lock
\* expires and the stalled job goes back to waiting.
Stalled(qj) == IF qj.state = "active" THEN [ qj EXCEPT !.state = "waiting" ] ELSE qj

\* The server process dies and start() runs to its end in a new process:
\* the module state (cancelledJobs, activeJobs, the running handlers) is
\* gone, the database and the BullMQ queues stay, initializeWorkers()
\* attaches new workers.  start() does not call recoverJobs(), whose body is
\* empty.
Restart ==
  /\ job.exists
  /\ hist.nRestarts < MaxRestarts
  /\ cancelledJobs' = FALSE
  /\ monitoring' = FALSE
  /\ detector' = IdleDetector
  /\ ctl' = IdleCtl
  /\ initPc' = "idle"
  /\ worker' = [ w \in Workers |-> IdleWorker ]
  /\ crawlQ' = Stalled(crawlQ)
  /\ pageQ' = [ k \in URLs |-> Stalled(pageQ[k]) ]
  /\ hist' = [ hist EXCEPT !.nRestarts = @ + 1 ]
  /\ UNCHANGED << job, pages, urlQueue, rowLocks, claimer, limiterVars, urlCall, robots, exporter >>

\* The engine of a job that is never paused or cancelled, with restarts of
\* the server process.
RecoveryNext ==
  \/ CrawlRoute
  \/ processCrawlJob
  \/ processPageJob
  \/ StartJobMonitoring
  \/ CheckJobCompletion_GetJob
  \/ CheckJobCompletion_GetQueueStats
  \/ CheckJobCompletion_GetPendingCount
  \/ CheckJobCompletion_UpdateJobStatus
  \/ Restart

RecoverySpec == Init /\ [][RecoveryNext]_vars

\* The workers keep taking jobs and every await settles; the monitoring
\* interval, once registered, keeps firing.
LiveSpec ==
  /\ Init /\ [][LiveNext]_vars
  /\ WF_vars(CrawlRoute)
  /\ WF_vars(processCrawlJob)
  /\ WF_vars(processPageJob)
  /\ WF_vars(StartJobMonitoring)
  /\ WF_vars(CheckJobCompletion_GetJob)
  /\ WF_vars(CheckJobCompletion_GetQueueStats)
  /\ WF_vars(CheckJobCompletion_GetPendingCount)
  /\ WF_vars(CheckJobCompletion_UpdateJobStatus)

\* ------------------------------------------------------------------ C4
\* C4: no two callers of getNextFromQueue hold a claim on the same frontier
\* entry: the rows returned to different callers are disjoint, every row a
\* call has selected is pending until the call marks it, and every claimed
\* row is crawling.
C4_ClaimsDisjoint ==
  /\ \A c1, c2 \in Claimers :
       c1 # c2 => /\ claimer[c1].claims \cap claimer[c2].claims = {}
                  /\ claimer[c1].rows \cap claimer[c2].rows = {}
                  /\ claimer[c1].rows \cap claimer[c2].claims = {}
  /\ \A c \in Claimers :
       /\ \A r \in claimer[c].rows : urlQueue[r] = "pending"
       /\ \A r \in claimer[c].claims : urlQueue[r] = "crawling"

\* Two calls are in flight at once and both have selected rows.
C4_Witness ==
  /\ claimer[1].pc = "update" /\ claimer[1].rows # {}
  /\ claimer[2].pc = "update" /\ claimer[2].rows # {}

\* ------------------------------------------------------------------ C1
\* C1: in every state of a job, pagesCrawled + pagesFailed + pagesSkipped
\* is at most pagesDiscovered, also when a failed fetch is re-attempted.
C1_CountersWithinDiscovered ==
  job.pagesCrawled + job.pagesFailed + job.pagesSkipped <= job.pagesDiscovered

\* ------------------------------------------------------------------ C2
\* C2: in every state of a job, pagesCrawled is at most maxPages, whatever
\* the number of handlers that process pages of the job at once.
C2_CrawledWithinMaxPages ==
  job.exists => job.pagesCrawled <= job.maxPages

\* ------------------------------------------------------------------ C3
\* C3: a terminal status is absorbing: no step changes the status of a job
\* that is completed, failed or cancelled.
C3_TerminalAbsorbing ==
  [][ job.status \in Terminal => job'.status = job.status ]_vars

DiscoveryInProgress ==
  \/ initPc \in { "addToQueue", "incDiscovered" }
  \/ \E w \in Workers : worker[w].pc = "incDiscovered"

\* C6: discovery never double-counts: whenever no discovery is in progress,
\* pagesDiscovered equals the number of Page rows of the job.
C6_DiscoveredEqualsRows ==
  ~DiscoveryInProgress => job.pagesDiscovered = Cardinality(pages)

\* ------------------------------------------------------------------ C7
\* The step on which checkJobCompletion commits its decision.
CompletionCommit ==
  detector.pc = "updateJobStatus" /\ detector'.pc = "idle"

\* C7: when the completion decision is committed as `completed`, the
\* frontier of the job has no pending and no claimed entry at that instant,
\* or pagesCrawled has reached maxPages.
C7_CompletedOnlyWhenDrained ==
  [][ (CompletionCommit /\ detector.finalStatus = "completed") =>
        \/ /\ getPendingCount(urlQueue) = 0
           /\ getQueueStats(urlQueue).crawling = 0
        \/ job.pagesCrawled >= job.maxPages ]_vars

\* ------------------------------------------------------------------ C8
\* C8: the completion decision is committed only after two consecutive
\* probes, an interval apart, have both observed a frontier with no pending
\* and no claimed entry; one zero observation never completes the job.
C8_TwoZeroObservations ==
  [][ CompletionCommit => hist.zeroObs >= 2 ]_vars

\* ------------------------------------------------------------------ C9
\* Every discovered page has been processed to its end: the crawl job is
\* initialised and the page job of every Page row has completed or failed.
AllPagesProcessed ==
  /\ job.exists /\ pages # {}
  /\ initPc = "idle" /\ crawlQ.state = "completed"
  /\ \A w \in Workers : worker[w].pc = "idle"
  /\ \A p \in pages : pageQ[PageJobId(p.nurl)].state \in { "completed", "failed" }

\* C9: a job created by the crawl endpoint that is never paused or cancelled
\* and whose discovered pages have all been processed eventually becomes
\* completed or failed.
C9_EventuallyFinished ==
  AllPagesProcessed ~> (job.status \in { "completed", "failed" })

\* ----------------------------------------------------------------- C10
\* Nothing is running or waiting to run for the job.
Quiescent ==
  /\ job.exists
  /\ initPc = "idle" /\ crawlQ.state = "completed"
  /\ \A w \in Workers : worker[w].pc = "idle"
  /\ \A k \in URLs : pageQ[k].state \notin { "waiting", "active" }
  /\ ctl = IdleCtl

\* C10: pausing and resuming loses no page: when a running job that was not
\* cancelled and met no fault comes to rest, every discovered page has been
\* crawled or the page budget is used up, as in a run that was never paused.
C10_PauseResumeLosesNoPage ==
  (Quiescent /\ job.status = "running" /\ ~cancelledJobs /\ hist.nFaults = 0) =>
    \/ job.pagesCrawled >= job.maxPages
    \/ \A p \in pages : p.nurl \in hist.crawledUrls

\* ----------------------------------------------------------------- C11
\* C11: no two fetches against the domain overlap: at most one caller that
\* the domain's RateLimiter has admitted has its fetch in flight.
C11_NoOverlappingFetches ==
  \A c1, c2 \in Callers :
    (caller[c1] = "fetching" /\ caller[c2] = "fetching") => c1 = c2

\* ----------------------------------------------------------------- C12
\* The step releases a waiter of acquire().
ReleaseStep == hist'.nReleased > hist.nReleased

\* C12: no waiter is released inside a throttle window: at every release
\* the clock has reached throttleUntil, also when throttle() was called
\* while the limiter was sleeping for the waiter.
C12_NoReleaseWhileThrottled ==
  [][ ReleaseStep => clock >= rateLimiter.throttleUntil ]_vars

\* ----------------------------------------------------------------- C13
\* C13: while delayMs is not changed, two consecutive releases are at least
\* delayMs apart, and lastRequest is the time of the latest release.
C13_ReleasesDelayApart ==
  LET n == Len(hist.releases)
  IN  /\ n >= 1 => rateLimiter.lastRequest = hist.releases[n].at
      /\ (n >= 2 /\ ~hist.delayChanged) =>
           hist.releases[n].at - hist.releases[n - 1].at >= rateLimiter.delayMs

\* A waiter that queued behind another one, through a throttle window, has
\* been released exactly delayMs after it.
C13_Witness ==
  /\ Len(hist.releases) >= 2 /\ ~hist.delayChanged
  /\ rateLimiter.throttleUntil > StartTime
  /\ hist.releases[2].at - hist.releases[1].at = rateLimiter.delayMs
  /\ hist.releases[2].at > rateLimiter.throttleUntil

\* ----------------------------------------------------------------- C14
\* C14: waiters are released in the order of their acquire() calls, whatever
\* throttle() and setDelay() calls come in between.
C14_ReleasedInAcquireOrder ==
  /\ Len(hist.releases) >= 1 =>
       hist.releases[Len(hist.releases)].ticket = hist.nReleased
  /\ Len(hist.releases) >= 2 =>
       hist.releases[1].ticket = hist.nReleased - 1

\* A waiter has been released while two later ones are in the queue behind
\* the one being slept for, and both throttle() and setDelay() have been
\* called.
C14_Witness ==
  /\ Len(hist.releases) >= 1 /\ Len(rateLimiter.queue) >= 2
  /\ hist.delayChanged /\ rateLimiter.throttleUntil > StartTime

\* ----------------------------------------------------------------- C15
\* C15: a URL that robots.txt denies to a job with respectRobotsTxt is not
\* treated as a failure: with no other fault, pagesFailed stays 0, no
\* attempt of the page job is consumed and the URL is not attempted again.
C15_RobotsDenyIsNoFailure ==
  (job.respectRobotsTxt /\ hist.nFaults = 0) =>
    /\ job.pagesFailed = 0
    /\ \A u \in Disallowed : pageQ[PageJobId(u)].attemptsMade = 0

\* ----------------------------------------------------------------- C16
\* C16: a failed fetch is counted in pagesFailed only when the retries of
\* its page are exhausted: pagesFailed is at most the number of pages whose
\* page job has failed for good, so a URL adds at most 1 and a URL that is
\* still to be retried adds 0.
C16_FailedCountsExhaustedOnly ==
  job.pagesFailed <= Cardinality({ k \in URLs : pageQ[k].state = "failed" })

\* ----------------------------------------------------------------- C17
\* C17: a cancel request for a job whose status is completed, failed or
\* cancelled is rejected and changes nothing: cancelCrawlJob does not start
\* and the cancelled-jobs set is unchanged.
C17_CancelRejectedWhenTerminal ==
  [][ (ctl.op = "idle" /\ job.status \in Terminal) =>
        (ctl'.op # "cancel" /\ cancelledJobs' = cancelledJobs) ]_vars

\* ----------------------------------------------------------------- C18
\* C18: the pause route writes `paused` only over `running` and the resume
\* route writes `running` only over `paused`, whatever ran between the
\* handler's read of the job and its write.
C18_PauseResumeWriteGuarded ==
  [][ /\ (ctl.op = "pause" /\ ctl'.op = "idle") => job.status = "running"
      /\ (ctl.op = "resume" /\ ctl'.op = "idle") => job.status = "paused"
    ]_vars

\* ----------------------------------------------------------------- C19
\* C19: when the startup after a restart completes, a job in status running
\* is monitored again (or has been moved out of running).
C19_NoUnownedRunningJob ==
  [][ hist'.nRestarts > hist.nRestarts =>
        (job'.status = "running" => monitoring') ]_vars

\* ----------------------------------------------------------------- C20
\* C20: a job whose pagesCrawled has reached maxPages eventually becomes
\* completed.
C20_BudgetExhaustedCompletes ==
  (job.exists /\ job.pagesCrawled >= job.maxPages) ~> (job.status = "completed")

\* C21: normalizeUrl is idempotent: normalising a link that is already
\* normalised gives the same string.
C21_NormalizeIdempotent ==
  urlCall.pc = "again" => urlCall.normalizedLink = urlCall.first.normalized

\* C22: two URLs with the same normalisation are both in the job's domain or
\* both outside it.
C22_SameNormalizedSameDomain ==
  (urlCall.pc = "two" /\ urlCall.first.normalized = urlCall.second.normalized)
    => urlCall.first.inDomain = urlCall.second.inDomain

\* Two hrefs whose hosts differ as written normalise to one in-domain string.
C22_Witness ==
  /\ urlCall.pc = "two"
  /\ urlCall.first.url.hostname # urlCall.second.url.hostname
  /\ urlCall.first.normalized = urlCall.second.normalized
  /\ urlCall.first.inDomain
  /\ urlCall.second.inDomain

\* C23: every page row has depth <= maxDepth, the seed's row has depth 0,
\* and a handler reads the links of its page only when the page's depth is
\* below maxDepth.
C23_DepthGate ==
  /\ \A p \in pages : /\ p.depth <= job.maxDepth
                      /\ p.nurl = SeedUrl => p.depth = 0
  /\ \A w \in Workers :
       worker[w].pc \in { "urlExists", "createPage", "incDiscovered",
                          "addPageJobs" } => worker[w].depth < job.maxDepth

\* A page at depth maxDepth that has a link was crawled and its link has no
\* row.
C23_Witness ==
  \E p \in pages : /\ p.depth = job.maxDepth
                   /\ p.nurl \in hist.crawledUrls
                   /\ Len(Links(p.nurl)) > 0
                   /\ \A q \in pages : q.nurl # Links(p.nurl)[1]

\* C24: no fetched page is discarded: once a handler's fetch has returned
\* and the handler has counted the page in pagesCrawled, the page's row is
\* stored as completed.
C24_FetchedPagePersisted ==
  \A u \in hist.crawledUrls :
    \E p \in pages : p.nurl = u /\ p.status = "completed"

\* C25: the single-page lookup answers 200 with the page for every page row
\* of the job, and 404 only for an id that no row of the job has.
C25_PageLookupFindsEveryRow ==
  \A p \in pages : GetPageRoute(job, pages, p.id) = [ status |-> 200,
                                                      page |-> { p } ]

\* C26: a paused job moves only to running or to cancelled; no step takes it
\* from paused to completed or failed.
C26_PausedLeavesByResumeOrCancel ==
  [][ job.status = "paused"
        => job'.status \in { "paused", "running", "cancelled" } ]_vars

\* C27: a handler that is waiting in rateLimiter.acquire() when the job is
\* cancelled or paused starts no fetch when acquire() returns: no handler
\* goes from acquire() to crawlPage while the job is cancelled or paused.
C27_NoFetchAfterCancelInAcquire ==
  [][ \A w \in Workers :
        (worker[w].pc = "acquire" /\ worker'[w].pc = "crawlPage")
          => job.status \notin { "cancelled", "paused" } /\ ~cancelledJobs ]_vars

\* C28: throttle(d) never shortens a throttle window: throttleUntil never
\* decreases.
C28_ThrottleNeverShortens ==
  [][ rateLimiter'.throttleUntil >= rateLimiter.throttleUntil ]_vars

\* C29: when a fetch fails with HTTP 429 or 503 (crawlPage rejects, robots.txt
\* not being the cause), the handler has throttled the domain's limiter by
\* the time it rethrows the failure for a retry: a throttle window is open
\* at that instant.
C29_ThrottledBeforeRetry ==
  [][ \A w \in Workers :
        ( /\ worker[w].pc = "incFailed"
          /\ worker'[w].pc = "idle"
          /\ ~RobotsDenies(job, worker[w].url) )
          => rateLimiter'.throttleUntil > clock' ]_vars

\* C30: when the completion detector commits its decision, the job becomes
\* failed if pagesCrawled = 0 and pagesFailed > 0 in the job row, and
\* completed otherwise.
C30_FinalStatusFromCounters ==
  [][ CompletionCommit
        => job'.status = IF job.pagesCrawled = 0 /\ job.pagesFailed > 0
                           THEN "failed" ELSE "completed" ]_vars

\* C31: while an unexpired null record of the domain is in robots_cache, no
\* robots.txt request is issued for the domain.
C31_NullRecordSavesFetch ==
  [][ hist'.nRobotsFetches > hist.nRobotsFetches
        => ~( /\ robots.row.exists
              /\ robots.row.robotsTxt = "null"
              /\ robots.row.expiresAt > clock ) ]_vars

\* C32: an entry re-enqueued after a failure carries a notBefore time later
\* than the time of the re-enqueue, and no claim returns an entry before its
\* notBefore: a claim made at the instant of the re-enqueue does not select
\* the entry.
C32_RequeuedNotClaimedAtOnce ==
  [][ \A c \in Claimers :
        (claimer[c].pc = "idle" /\ claimer'[c].pc = "update")
          => claimer'[c].rows \cap hist.requeued = {} ]_vars

\* C33: every frontier entry stored for a URL at depth d has priority
\* 10 - min(d, 9).
C33_EntryPriorityFromDepth ==
  \A u \in URLs :
    urlQueue[u] # "none"
      => QueuePriority(urlQueue, u) = PagePriority(QueueDepth(urlQueue, u))

\* C34: at any moment the number of page handlers that are processing pages
\* of the job is at most the job's maxConcurrentWorkers.
C34_HandlersWithinJobLimit ==
  job.exists =>
    Cardinality({ w \in Workers : worker[w].pc # "idle" })
      <= job.maxConcurrentWorkers

\* C35: once a handler has stored a page as completed and counted it, the
\* frontier entry of the page's URL is no longer pending or crawling.
C35_FrontierFollowsPage ==
  \A u \in hist.crawledUrls : urlQueue[u] \notin { "pending", "crawling" }

\* C36: every page row created by discovery gets its own page job: when a
\* handler's addPageJobs call has returned, the queue holds, for each URL it
\* passed, a job under that URL's id whose data is that URL.
C36_EveryNewPageHasItsJob ==
  [][ \A w \in Workers :
        (worker[w].pc = "addPageJobs" /\ worker'[w].pc # "addPageJobs")
          => \A u \in worker[w].newUrls :
               /\ pageQ'[PageJobId(u)].state # "none"
               /\ pageQ'[PageJobId(u)].nurl = u ]_vars

\* C37: a page that is short-circuited to skipped because pagesCrawled has
\* reached maxPages increments pagesSkipped by 1.
C37_SkipCountsInPagesSkipped ==
  [][ \A w \in Workers :
        (worker[w].pc = "skip" /\ worker'[w].pc = "idle")
          => job'.pagesSkipped = job.pagesSkipped + 1 ]_vars

\* C38: the status update a handler makes after a successful fetch changes
\* exactly the page row of its URL, to completed, and leaves every other
\* page row unchanged.
C38_StatusUpdateChangesItsRow ==
  [][ \A w \in Workers :
        (worker[w].pc = "storeResult" /\ worker'[w].pc = "incCrawled")
          => pages' = { IF p.nurl = worker[w].url
                          THEN [ p EXCEPT !.status = "completed" ]
                          ELSE p : p \in pages } ]_vars

\* C39: when an export has ended, every page that was completed before it
\* started has been emitted exactly once.
C39_ExportEmitsEachPageOnce ==
  exporter.pc = "done" =>
    \A id \in exporter.before :
      Cardinality({ i \in 1 .. Len(exporter.emitted) :
                      exporter.emitted[i] = id }) = 1

\* C40: every acquire() is resolved in the end; when no drain loop is running
\* (processing = false) the queue is empty and no caller waits; and the flag
\* is set exactly while the one drain loop is inside its while loop, so that
\* no second loop is started.
C40_EveryAcquireResolves ==
  /\ [](~rateLimiter.processing =>
          /\ rateLimiter.queue = << >>
          /\ \A c \in Callers : caller[c] # "waiting")
  /\ [](rateLimiter.processing <=> rateLimiter.pc # "idle")
  /\ \A c \in Callers : (caller[c] = "waiting") ~> (caller[c] # "waiting")

\* Two callers wait behind a throttle sleep after an earlier release.
C40_Witness ==
  /\ rateLimiter.pc = "sleepThrottle"
  /\ Len(rateLimiter.queue) >= 1
  /\ hist.nReleased >= 1
  /\ Cardinality({ c \in Callers : caller[c] = "waiting" }) >= 2

====
